---- MODULE Spec2Model ----
(***************************************************************************)
(* A model of package bitarray (src/bitarray.go): a fixed-size bit vector  *)
(* packed into bytes, least significant bit at index 0.                    *)
(*                                                                         *)
(* A BitArray is the record [size, data]; data is the Go slice, so Go's    *)
(* data[i] is data[i+1] here.  Every exported function is an operator that *)
(* computes what the Go code computes, loop by loop, and returns a result  *)
(* record [v, ret, panic]: the receiver after the call, the returned value *)
(* and the panic message (NoPanic when the call returns normally).         *)
(*                                                                         *)
(* The state machine is a caller that holds one vector, ba, and calls the  *)
(* package on it; last records the call that has just returned.            *)
(***************************************************************************)
EXTENDS Integers, Sequences, FiniteSets, TLC

VARIABLES ba, last

vars == <<ba, last>>

-----------------------------------------------------------------------------
(* Bounds of the model. *)

\* The largest size a caller asks for (sizes 1..8 fit one byte, 9.. need two).
MaxSize == 9
\* The most indexes passed to New(size, idx...).
MaxIdx == 1
\* How far beyond size the index and distance arguments range.
MaxOver == 1
\* The longest string passed to Parse.
MaxStrLen == 3

-----------------------------------------------------------------------------
(* Go's machine integers. *)

bitsN == 8

MaxUint8 == 255

\* int is 32 bits wide on 32-bit builds and 64 bits wide on 64-bit builds; the
\* arithmetic below is the two's complement arithmetic of the 32-bit build and
\* never leaves the 32-bit range.
MaxInt == 2147483647

MinInt == -MaxInt - 1

\* -n on int: -MinInt wraps to MinInt.
Neg(n) == IF n = MinInt THEN MinInt ELSE -n

\* a + b on int, wrapping.
Add(a, b) ==
  IF b >= 0 /\ a > MaxInt - b THEN ((a - MaxInt) - 1) + ((b - MaxInt) - 1)
  ELSE IF b < 0 /\ a < MinInt - b THEN ((a + MaxInt) + 1) + ((b + MaxInt) + 1)
  ELSE a + b

\* a - b on int, wrapping.
Sub(a, b) == Add(a, Neg(b))

\* a / b and a % b on int for b > 0: Go truncates toward zero.
Quo(a, b) == IF a < 0 /\ a % b # 0 THEN (a \div b) + 1 ELSE a \div b

Rem(a, b) == IF a < 0 /\ a % b # 0 THEN (a % b) - b ELSE a % b

\* Bit i of the byte x.
Bit(x, i) == (x \div (2 ^ i)) % 2

\* x & y, x | y, x ^ y, x &^ y and ^x on uint8.
ByteAnd(x, y) ==
  LET b(i) == Bit(x, i) * Bit(y, i)
  IN b(0) + 2*b(1) + 4*b(2) + 8*b(3) + 16*b(4) + 32*b(5) + 64*b(6) + 128*b(7)

ByteOr(x, y) ==
  LET b(i) == IF Bit(x, i) + Bit(y, i) > 0 THEN 1 ELSE 0
  IN b(0) + 2*b(1) + 4*b(2) + 8*b(3) + 16*b(4) + 32*b(5) + 64*b(6) + 128*b(7)

ByteXor(x, y) ==
  LET b(i) == (Bit(x, i) + Bit(y, i)) % 2
  IN b(0) + 2*b(1) + 4*b(2) + 8*b(3) + 16*b(4) + 32*b(5) + 64*b(6) + 128*b(7)

ByteAndNot(x, y) ==
  LET b(i) == Bit(x, i) * (1 - Bit(y, i))
  IN b(0) + 2*b(1) + 4*b(2) + 8*b(3) + 16*b(4) + 32*b(5) + 64*b(6) + 128*b(7)

ByteNot(x) == MaxUint8 - x

\* A result on uint8: the low 8 bits.
U8(x) == x % (MaxUint8 + 1)

\* 1 << i on uint8.
Shl1(i) == U8(2 ^ i)

\* math/bits.OnesCount8, LeadingZeros8, TrailingZeros8.
OnesCount8(x) ==
  Bit(x, 0) + Bit(x, 1) + Bit(x, 2) + Bit(x, 3) + Bit(x, 4) + Bit(x, 5) + Bit(x, 6) + Bit(x, 7)

RECURSIVE Len8(_)
Len8(x) == IF x = 0 THEN 0 ELSE 1 + Len8(x \div 2)

LeadingZeros8(x) == bitsN - Len8(x)

RECURSIVE TrailingZeros8(_)
TrailingZeros8(x) ==
  IF x = 0 THEN bitsN ELSE IF x % 2 = 1 THEN 0 ELSE 1 + TrailingZeros8(x \div 2)

-----------------------------------------------------------------------------
(* The BitArray type and the results of calls. *)

\* The zero value of BitArray, new(BitArray): what the caller holds before it
\* has constructed a vector, and the receiver UnmarshalBinary fills.
Zero == [size |-> 0, data |-> <<>>]

NoPanic == "none"

IndexPanic == "index out of range"

SizePanic == "size must be > 0"

SizesPanic == "bit array sizes must be equal"

\* A panic of the Go runtime: a slice index or a shift count out of range.
RuntimePanic == "runtime error"

NoRet == "void"

NoErr == "nil"

\* Parse's error, fmt.Errorf("unknown character: %c", ...).
CharErr == "unknown character"

\* The error of a gob Decode that finds no message or one of another type.
GobErr == "gob"

Ok(v, ret) == [v |-> v, ret |-> ret, err |-> NoErr, panic |-> NoPanic]

\* A call that returns a non-nil error beside its value.
Fail(v, ret, e) == [v |-> v, ret |-> ret, err |-> e, panic |-> NoPanic]

Panic(v, msg) == [v |-> v, ret |-> NoRet, err |-> NoErr, panic |-> msg]

\* make([]uint8, n)
MakeBytes(n) == [k \in 1..n |-> 0]

-----------------------------------------------------------------------------
(* Single bits. *)

\* A bounds check that lets idx = size through.
checkIdxInclusive(b, idx) == idx < 0 \/ idx > b.size

\* checkIdx panics (TRUE) unless 0 <= idx < size.
checkIdx(b, idx) == idx < 0 \/ idx >= b.size

\* checkSize panics (TRUE) unless the sizes are equal.
checkSize(b, other) == b.size # other.size

\* get, set and unset index data with idx/bitsN and shift by idx%bitsN: the
\* runtime panics when idx is negative (negative shift count or index) or the
\* byte is beyond the slice.
Oob(b, idx) == idx < 0 \/ Quo(idx, bitsN) >= Len(b.data)

set(b, idx) ==
  [b EXCEPT !.data[Quo(idx, bitsN) + 1] = ByteOr(@, Shl1(Rem(idx, bitsN)))]

unset(b, idx) ==
  [b EXCEPT !.data[Quo(idx, bitsN) + 1] = ByteAndNot(@, Shl1(Rem(idx, bitsN)))]

get(b, idx) ==
  ByteAnd(b.data[Quo(idx, bitsN) + 1], Shl1(Rem(idx, bitsN))) # 0

\* if bit { b.set(idx) } else { b.unset(idx) }
put(b, idx, bit) == IF bit THEN set(b, idx) ELSE unset(b, idx)

Set(b, idx) ==
  IF checkIdx(b, idx) THEN Panic(b, IndexPanic) ELSE Ok(set(b, idx), NoRet)

Unset(b, idx) ==
  IF checkIdx(b, idx) THEN Panic(b, IndexPanic) ELSE Ok(unset(b, idx), NoRet)

Get(b, idx) ==
  IF checkIdx(b, idx) THEN Panic(b, IndexPanic) ELSE Ok(b, get(b, idx))

-----------------------------------------------------------------------------
(* Construction. *)

\* The loop of New: Set each index in turn; the first panic ends it.
RECURSIVE SetEach(_, _, _)
SetEach(b, idx, k) ==
  IF k > Len(idx) THEN Ok(b, NoRet)
  ELSE LET r == Set(b, idx[k])
       IN IF r.panic # NoPanic THEN r ELSE SetEach(r.v, idx, k + 1)

\* New(size, idx...): the new vector is the returned value.
New(size, idx) ==
  IF size <= 0 THEN Panic(Zero, SizePanic)
  ELSE LET n == Quo(size, bitsN)
           r == Rem(size, bitsN)
           b == [size |-> size, data |-> MakeBytes(IF r > 0 THEN n + 1 ELSE n)]
           s == SetEach(b, idx, 1)
       IN IF s.panic # NoPanic THEN Panic(Zero, s.panic) ELSE Ok(Zero, s.v)

\* Clone(ba): a copy of the bytes under the same size.
Clone(b) == Ok(b, [size |-> b.size, data |-> [k \in 1..Len(b.data) |-> b.data[k]]])

-----------------------------------------------------------------------------
(* Whole-vector writes. *)

\* Clear: every byte becomes 0.
Clear(b) == Ok([b EXCEPT !.data = [k \in 1..Len(b.data) |-> 0]], NoRet)

\* A last byte filled without regard to size.
lastMaskFull(size) == MaxUint8

\* The mask SetAll stores in the last byte: (2 << (x - 1)) - 1 on uint8, or
\* math.MaxUint8 when size is a multiple of bitsN.
lastMask(size) ==
  LET x == Rem(size, bitsN)
  IN IF x = 0 THEN MaxUint8
     ELSE U8(U8(2 * (2 ^ (x - 1))) - 1)

SetAll(b) ==
  IF Len(b.data) = 0 THEN Panic(b, RuntimePanic)
  ELSE Ok([b EXCEPT !.data = [k \in 1..Len(b.data) |->
                                IF k = Len(b.data) THEN lastMask(b.size) ELSE MaxUint8]],
          NoRet)

-----------------------------------------------------------------------------
(* Bitwise algebra.  The four binary operators share their shape: a loop    *)
(* over the bytes before the last, then either the last byte as a whole     *)
(* (size a multiple of bitsN) or the bits of the last byte one by one.      *)
(* The operand is read through Operand, which yields the receiver as it is  *)
(* at that moment when the caller passed the receiver itself (a.And(a)).    *)

Operand(cur, other, alias) == IF alias THEN cur ELSE other

\* ba.data[i] op= other.data[i]
AndByte(x, y) == ByteAnd(x, y)

OrByte(x, y) == ByteOr(x, y)

XorByte(x, y) == ByteXor(x, y)

AndNotByte(x, y) == ByteAndNot(x, y)

opByte(op, x, y) ==
  CASE op = "And" -> AndByte(x, y)
    [] op = "Or" -> OrByte(x, y)
    [] op = "Xor" -> XorByte(x, y)
    [] op = "AndNot" -> AndNotByte(x, y)

\* The body of the bit loop of each operator, on bit i.
AndBit(cur, o, i) == IF ~get(o, i) THEN unset(cur, i) ELSE cur

OrBit(cur, o, i) == IF get(o, i) THEN set(cur, i) ELSE cur

\* An exclusive or of the last bits that only ever sets.
XorBitSetOnly(cur, o, i) ==
  IF get(o, i) /\ ~get(cur, i) THEN set(cur, i) ELSE cur

XorBit(cur, o, i) ==
  LET b1 == get(cur, i)
      b2 == get(o, i)
      b == (b1 \/ b2) /\ ~(b1 /\ b2)
  IN IF b /\ ~b1 THEN set(cur, i)
     ELSE IF ~b /\ b1 THEN unset(cur, i)
     ELSE cur

AndNotBit(cur, o, i) == IF get(cur, i) /\ get(o, i) THEN unset(cur, i) ELSE cur

opBit(op, cur, o, i) ==
  CASE op = "And" -> AndBit(cur, o, i)
    [] op = "Or" -> OrBit(cur, o, i)
    [] op = "Xor" -> XorBit(cur, o, i)
    [] op = "AndNot" -> AndNotBit(cur, o, i)

\* ba.data[i] op= other.data[i] for one i.
opAt(op, cur, other, alias, i) ==
  [cur EXCEPT !.data[i + 1] = opByte(op, @, Operand(cur, other, alias).data[i + 1])]

\* for i := 0; i < len(ba.data)-1; i++ { ba.data[i] op= other.data[i] }
RECURSIVE opBytes(_, _, _, _, _)
opBytes(op, cur, other, alias, i) ==
  IF i >= Len(cur.data) - 1 THEN Ok(cur, NoRet)
  ELSE IF i >= Len(Operand(cur, other, alias).data) THEN Panic(cur, RuntimePanic)
  ELSE opBytes(op, opAt(op, cur, other, alias, i), other, alias, i + 1)

\* for i := (ba.size / bitsN) * bitsN; i < ba.size; i++ { ... }
RECURSIVE opBits(_, _, _, _, _)
opBits(op, cur, other, alias, i) ==
  IF i >= cur.size THEN Ok(cur, NoRet)
  ELSE IF Oob(cur, i) \/ Oob(Operand(cur, other, alias), i) THEN Panic(cur, RuntimePanic)
  ELSE opBits(op, opBit(op, cur, Operand(cur, other, alias), i), other, alias, i + 1)

binary(op, b, other, alias) ==
  IF checkSize(b, Operand(b, other, alias)) THEN Panic(b, SizesPanic)
  ELSE LET full == opBytes(op, b, other, alias, 0)
           i == Len(b.data) - 1
       IN IF full.panic # NoPanic THEN full
          ELSE IF Rem(b.size, bitsN) = 0
          THEN IF i < 0 \/ i >= Len(Operand(full.v, other, alias).data)
               THEN Panic(full.v, RuntimePanic)
               ELSE Ok(opAt(op, full.v, other, alias, i), NoRet)
          ELSE opBits(op, full.v, other, alias, Quo(b.size, bitsN) * bitsN)

And(b, other, alias) == binary("And", b, other, alias)

Or(b, other, alias) == binary("Or", b, other, alias)

Xor(b, other, alias) == binary("Xor", b, other, alias)

AndNot(b, other, alias) == binary("AndNot", b, other, alias)

\* The bit loop of Not.
RECURSIVE notBits(_, _)
notBits(cur, i) ==
  IF i >= cur.size THEN Ok(cur, NoRet)
  ELSE IF Oob(cur, i) THEN Panic(cur, RuntimePanic)
  ELSE notBits(put(cur, i, ~get(cur, i)), i + 1)

Not(b) ==
  LET n == Len(b.data)
      full == [b EXCEPT !.data = [k \in 1..n |-> IF k < n THEN ByteNot(b.data[k]) ELSE b.data[k]]]
  IN IF Rem(b.size, bitsN) = 0
     THEN IF n = 0 THEN Panic(b, RuntimePanic)
          ELSE Ok([full EXCEPT !.data[n] = ByteNot(@)], NoRet)
     ELSE notBits(full, Quo(b.size, bitsN) * bitsN)

-----------------------------------------------------------------------------
(* Slice and Concat. *)

\* The loop of Slice: for i := start; i < end; i++ { if ba.get(i) { result.set(idx) }; idx++ }
RECURSIVE sliceBits(_, _, _, _, _)
sliceBits(b, result, i, end, idx) ==
  IF i >= end THEN Ok(b, result)
  ELSE IF Oob(b, i) THEN Panic(b, RuntimePanic)
  ELSE IF get(b, i)
  THEN IF Oob(result, idx) THEN Panic(b, RuntimePanic)
       ELSE sliceBits(b, set(result, idx), i + 1, end, idx + 1)
  ELSE sliceBits(b, result, i + 1, end, idx + 1)

Slice(b, start, end) ==
  IF checkIdx(b, start) THEN Panic(b, IndexPanic)
  ELSE IF checkIdx(b, Sub(end, 1)) THEN Panic(b, IndexPanic)
  ELSE LET result == New(Sub(end, start), <<>>)
       IN IF result.panic # NoPanic THEN Panic(b, result.panic)
          ELSE sliceBits(b, result.ret, start, end, 0)

\* A byte loop that stops one byte short.
concatBytesShort(b, ba2, n) ==
  [b EXCEPT !.data = [k \in 1..Len(b.data) |-> IF k < n THEN ba2.data[k] ELSE b.data[k]]]

\* for i := 0; i < n; i++ { ba.data[i] = ba2.data[i] }
concatBytes(b, ba2, n) ==
  [b EXCEPT !.data = [k \in 1..Len(b.data) |-> IF k <= n THEN ba2.data[k] ELSE b.data[k]]]

\* for i := from; i < to; i++ { if src.get(i2) { ba.set(i) }; i2++ }
RECURSIVE concatBits(_, _, _, _, _)
concatBits(b, src, i, to, i2) ==
  IF i >= to THEN b
  ELSE concatBits(IF get(src, i2) THEN set(b, i) ELSE b, src, i + 1, to, i2 + 1)

\* Concat(ba1, ba2): ba2 fills the low end, ba1 follows it.
Concat(ba1, ba2) ==
  LET r == New(Add(ba1.size, ba2.size), <<>>)
      n == Quo(ba2.size, bitsN)
  IN IF r.panic # NoPanic THEN Panic(ba1, r.panic)
     ELSE LET low == concatBits(concatBytes(r.ret, ba2, n), ba2, n * bitsN, ba2.size, n * bitsN)
          IN Ok(ba1, concatBits(low, ba1, ba2.size, r.ret.size, 0))

-----------------------------------------------------------------------------
(* Rotate and Shift. *)

\* for i := ba.size - 1; i >= n; i-- { ba[i] = ba[i-n] }
RECURSIVE moveUp(_, _, _)
moveUp(cur, n, i) ==
  IF i < n THEN Ok(cur, NoRet)
  ELSE IF Oob(cur, Sub(i, n)) \/ Oob(cur, i) THEN Panic(cur, RuntimePanic)
  ELSE moveUp(put(cur, i, get(cur, Sub(i, n))), n, i - 1)

\* for i := 0; i < ba.size-n; i++ { ba[i] = ba[i+n] }
RECURSIVE moveDown(_, _, _)
moveDown(cur, n, i) ==
  IF i >= Sub(cur.size, n) THEN Ok(cur, NoRet)
  ELSE IF Oob(cur, Add(i, n)) \/ Oob(cur, i) THEN Panic(cur, RuntimePanic)
  ELSE moveDown(put(cur, i, get(cur, Add(i, n))), n, i + 1)

\* moveBits returns the range [start, end) of the bits it has vacated.
moveBits(b, n) ==
  IF n = 0 THEN [v |-> b, start |-> 0, end |-> 0, panic |-> NoPanic]
  ELSE IF n > 0
  THEN LET r == moveUp(b, n, Sub(b.size, 1))
       IN [v |-> r.v, start |-> 0, end |-> n, panic |-> r.panic]
  ELSE LET m == Neg(n)
           r == moveDown(b, m, 0)
       IN [v |-> r.v, start |-> Sub(b.size, m), end |-> b.size, panic |-> r.panic]

\* The loop of Rotate: for i := start; i < end; i++ { ba[i] = aux[i-start] }
RECURSIVE fillFrom(_, _, _, _, _)
fillFrom(cur, aux, start, i, end) ==
  IF i >= end THEN Ok(cur, NoRet)
  ELSE IF Oob(aux, Sub(i, start)) \/ Oob(cur, i) THEN Panic(cur, RuntimePanic)
  ELSE fillFrom(put(cur, i, get(aux, Sub(i, start))), aux, start, i + 1, end)

\* A distance taken as it comes.
rotateByUnreduced(b, n) == n

\* n % ba.size: the sign of n is kept, so |n| < size afterwards.
rotateBy(b, n) == Rem(n, b.size)

Rotate(b, n) ==
  LET k == rotateBy(b, n)
      aux == IF k > 0 THEN Slice(b, Sub(b.size, k), b.size)
             ELSE IF k < 0 THEN Slice(b, 0, Neg(k))
             ELSE Ok(b, Zero)
  IN IF aux.panic # NoPanic THEN Panic(b, aux.panic)
     ELSE LET m == moveBits(b, k)
          IN IF m.panic # NoPanic THEN Panic(m.v, m.panic)
             ELSE fillFrom(m.v, aux.ret, m.start, m.start, m.end)

\* The loop of Shift: for i := start; i < end; i++ { ba.unset(i) }
RECURSIVE unsetRange(_, _, _)
unsetRange(cur, i, end) ==
  IF i >= end THEN Ok(cur, NoRet)
  ELSE IF Oob(cur, i) THEN Panic(cur, RuntimePanic)
  ELSE unsetRange(unset(cur, i), Add(i, 1), end)

\* n > 0 && n >= ba.size || n < 0 && -n >= ba.size
shiftsOut(b, n) == (n > 0 /\ n >= b.size) \/ (n < 0 /\ Neg(n) >= b.size)

Shift(b, n) ==
  IF shiftsOut(b, n) THEN Clear(b)
  ELSE LET m == moveBits(b, n)
       IN IF m.panic # NoPanic THEN Panic(m.v, m.panic)
          ELSE unsetRange(m.v, m.start, m.end)

-----------------------------------------------------------------------------
(* Queries. *)

Size(b) == Ok(b, b.size)

\* Equal compares the sizes, then every byte.
Equal(b, other) ==
  IF b.size # other.size THEN Ok(b, FALSE)
  ELSE IF \E k \in 1..Len(b.data) : k > Len(other.data) THEN Panic(b, RuntimePanic)
  ELSE Ok(b, \A k \in 1..Len(b.data) : b.data[k] = other.data[k])

RECURSIVE countFrom(_, _)
countFrom(b, k) ==
  IF k > Len(b.data) THEN 0 ELSE OnesCount8(b.data[k]) + countFrom(b, k + 1)

Count(b) == Ok(b, countFrom(b, 1))

\* for i := len(ba.data) - 1; i >= 0; i-- { zero byte: cnt += bitsN; else count and break }
RECURSIVE leadingFrom(_, _)
leadingFrom(b, k) ==
  IF k < 1 THEN 0
  ELSE IF b.data[k] = 0 THEN bitsN + leadingFrom(b, k - 1)
  ELSE LeadingZeros8(b.data[k])

\* A count that takes the padding bits for leading zeros.
LeadingZerosPadded(b) == Ok(b, leadingFrom(b, Len(b.data)))

LeadingZeros(b) ==
  LET cnt == leadingFrom(b, Len(b.data))
      x == Rem(b.size, bitsN)
  IN Ok(b, IF x # 0 THEN cnt - (bitsN - x) ELSE cnt)

RECURSIVE trailingFrom(_, _)
trailingFrom(b, k) ==
  IF k > Len(b.data) THEN 0
  ELSE IF b.data[k] = 0 THEN bitsN + trailingFrom(b, k + 1)
  ELSE TrailingZeros8(b.data[k])

TrailingZeros(b) ==
  LET cnt == trailingFrom(b, 1)
  IN Ok(b, IF cnt > b.size THEN b.size ELSE cnt)

-----------------------------------------------------------------------------
(* The string form.  A string is a sequence of one-character strings. *)

\* strconv's binary digits of x, most significant first, "0" for 0.
RECURSIVE binDigits(_)
binDigits(x) ==
  IF x < 2 THEN <<IF x = 1 THEN "1" ELSE "0">>
  ELSE binDigits(x \div 2) \o <<IF x % 2 = 1 THEN "1" ELSE "0">>

\* The digits without the zero padding ("%b").
SprintfB(width, x) == binDigits(x)

\* fmt.Sprintf("%0*b", width, x): the digits, padded on the left with zeros to
\* width, never cut.
Sprintf0b(width, x) ==
  LET d == binDigits(x)
  IN IF Len(d) >= width THEN d ELSE [k \in 1..(width - Len(d)) |-> "0"] \o d

RECURSIVE stringFrom(_, _)
stringFrom(b, i) ==
  IF i < 0 THEN <<>> ELSE Sprintf0b(bitsN, b.data[i + 1]) \o stringFrom(b, i - 1)

String(b) ==
  LET baLen == Len(b.data)
      n == IF Rem(b.size, bitsN) = 0 THEN bitsN ELSE Rem(b.size, bitsN)
  IN IF baLen = 0 THEN Panic(b, RuntimePanic)
     ELSE Ok(b, Sprintf0b(n, b.data[baLen]) \o stringFrom(b, baLen - 2))

\* strings.ReplaceAll(s, " ", "")
RECURSIVE noSpaces(_)
noSpaces(s) ==
  IF s = <<>> THEN <<>>
  ELSE IF Head(s) = " " THEN noSpaces(Tail(s))
  ELSE <<Head(s)>> \o noSpaces(Tail(s))

\* The loop of Parse over rs, at (0-based) i.
RECURSIVE parseFrom(_, _, _)
parseFrom(b, rs, i) ==
  IF i >= Len(rs) THEN Ok(Zero, b)
  ELSE IF rs[i + 1] = "1" THEN parseFrom(set(b, Len(rs) - 1 - i), rs, i + 1)
  ELSE IF rs[i + 1] # "0" THEN Fail(Zero, Zero, CharErr)
  ELSE parseFrom(b, rs, i + 1)

\* Parse(s): New(len(rs)) panics when no character is left.
Parse(s) ==
  LET rs == noSpaces(s)
      r == New(Len(rs), <<>>)
  IN IF r.panic # NoPanic THEN Panic(Zero, r.panic) ELSE parseFrom(r.ret, rs, 0)

-----------------------------------------------------------------------------
(* The binary form.  encoding/gob writes one message per Encode call; a      *)
(* payload is the sequence of its messages, each an int or a byte slice.    *)
(* Decode reads the next message whole and fails, storing nothing, when     *)
(* there is none or it is of the other kind.                                *)

gobInt(n) == [kind |-> "int", int |-> n, bytes |-> <<>>]

gobBytes(d) == [kind |-> "bytes", int |-> 0, bytes |-> d]

\* dec.Decode(&x) on message k of the payload succeeds.
decodes(payload, k, kind) == k <= Len(payload) /\ payload[k].kind = kind

\* An encoding that writes the number of bytes for the size.
MarshalBinaryByteCount(b) == Ok(b, <<gobInt(Len(b.data)), gobBytes(b.data)>>)

\* enc.Encode(ba.size), then enc.Encode(ba.data).
MarshalBinary(b) == Ok(b, <<gobInt(b.size), gobBytes(b.data)>>)

\* dec.Decode(&ba.size), then dec.Decode(&ba.data): each stores as it succeeds.
UnmarshalBinary(b, payload) ==
  IF ~decodes(payload, 1, "int") THEN Fail(b, NoRet, GobErr)
  ELSE LET b1 == [b EXCEPT !.size = payload[1].int]
       IN IF ~decodes(payload, 2, "bytes") THEN Fail(b1, NoRet, GobErr)
          ELSE Ok([b1 EXCEPT !.data = payload[2].bytes], NoRet)

-----------------------------------------------------------------------------
(* The arguments the caller passes. *)

\* Sequences over S of length at most n.
RECURSIVE SeqsUpTo(_, _)
SeqsUpTo(S, n) ==
  IF n = 0 THEN {<<>>}
  ELSE LET shorter == SeqsUpTo(S, n - 1)
       IN shorter \cup {Append(q, x) : q \in {t \in shorter : Len(t) = n - 1}, x \in S}

\* The sizes passed to New: the valid ones, 0 and a negative one.
NewSizes == -1..MaxSize

\* The index lists passed to New(size, idx...).
IdxLists(size) == SeqsUpTo(-1..size, MaxIdx)

\* The indexes passed to Get, Set and Unset on b.
IdxArgs(b) == (-MaxOver..(b.size - 1 + MaxOver)) \cup {MinInt, MaxInt}

\* The distances passed to Rotate and Shift on b.
NArgs(b) == (-(b.size + MaxOver)..(b.size + MaxOver)) \cup {MinInt, MaxInt}

\* The bounds passed to Slice on b.
SliceArgs(b) == (-1..(b.size + 1)) \cup {MinInt}

\* The characters of the strings passed to Parse.
Chars == {"0", "1", " ", "2"}

ParseArgs == SeqsUpTo(Chars, MaxStrLen)

\* The vectors of a size that New builds from no index or from one: the
\* operands the caller passes beside its own vector.
Built(size) == {New(size, idx).ret : idx \in SeqsUpTo(0..(size - 1), 1)}

BuiltOf == [size \in 1..(MaxSize + 1) |-> Built(size)]

\* The operands passed to And, Or, Xor, AndNot and Equal on b: the vectors of
\* its size that New builds, the one SetAll has filled, and one vector of each
\* neighbouring size.
Others(b) ==
  BuiltOf[b.size]
    \cup {SetAll(New(b.size, <<>>).ret).v}
    \cup {New(sz, <<0>>).ret : sz \in {b.size - 1, b.size + 1} \cap (1..MaxSize)}

\* The operands passed to Concat with b: the sum of the sizes stays within
\* MaxSize.
ConcatOthers(b) == UNION {BuiltOf[sz] : sz \in 1..(MaxSize - b.size)}

-----------------------------------------------------------------------------
(* The caller.  It holds one vector, ba (Zero before it has built one).  A  *)
(* call computes its result from ba and the arguments and records itself in *)
(* last; Return clears the record.  A call that returns a new vector leaves *)
(* the caller holding that vector.                                          *)

\* The arguments of a call: n and m are its integers (a size, an index, a
\* distance, the bounds of a slice), idx the index list of New, s the string of
\* Parse, other and alias the operand of a binary operator, ba1 and ba2 the
\* vectors of Concat, payload the bytes of UnmarshalBinary.
NoArgs ==
  [n |-> 0, m |-> 0, idx |-> <<>>, s |-> <<>>, other |-> Zero, alias |-> FALSE,
   ba1 |-> Zero, ba2 |-> Zero, payload |-> <<>>]

\* last: the call, its receiver before and after, and what it returned: a
\* vector, an int, a bool, a string or a payload, with its error and panic.
NoCall ==
  [op |-> "none", args |-> NoArgs, pre |-> Zero, post |-> Zero,
   vec |-> Zero, num |-> 0, bool |-> FALSE, str |-> <<>>, payload |-> <<>>,
   err |-> NoErr, panic |-> NoPanic]

Idle == last.op = "none"

HasVector == ba # Zero

Init == ba = Zero /\ last = NoCall

\* r is the result of a call that returns normally and without error.
Succeeded(r) == r.panic = NoPanic /\ r.err = NoErr

\* The call op(args) on receiver pre has ended with r, whose returned value is
\* of the given kind; the caller goes on with next.
Call(op, args, pre, r, kind, next) ==
  /\ last' = [op |-> op, args |-> args, pre |-> pre, post |-> r.v,
              vec |-> IF kind = "vec" /\ Succeeded(r) THEN r.ret ELSE Zero,
              num |-> IF kind = "num" /\ Succeeded(r) THEN r.ret ELSE 0,
              bool |-> IF kind = "bool" /\ Succeeded(r) THEN r.ret ELSE FALSE,
              str |-> IF kind = "str" /\ Succeeded(r) THEN r.ret ELSE <<>>,
              payload |-> IF kind = "payload" /\ Succeeded(r) THEN r.ret ELSE <<>>,
              err |-> r.err, panic |-> r.panic]
  /\ ba' = next

\* What the caller holds after a call that returns a new vector of ba.
Kept(r) == IF Succeeded(r) THEN r.ret ELSE ba

\* The caller constructs its vector where it holds none.  What a constructor
\* returns does not depend on a vector held before, so a caller that
\* constructs anew later on reaches no other vectors and no other calls.
DoNew ==
  /\ Idle /\ ~HasVector
  /\ \E size \in NewSizes : \E idx \in IdxLists(size) :
       LET r == New(size, idx)
       IN Call("New", [NoArgs EXCEPT !.n = size, !.idx = idx], Zero, r, "vec", Kept(r))

DoParse ==
  /\ Idle /\ ~HasVector
  /\ \E s \in ParseArgs :
       LET r == Parse(s)
       IN Call("Parse", [NoArgs EXCEPT !.s = s], Zero, r, "vec", Kept(r))

DoClone ==
  /\ Idle /\ HasVector
  /\ LET r == Clone(ba) IN Call("Clone", NoArgs, ba, r, "vec", Kept(r))

DoClear ==
  /\ Idle /\ HasVector
  /\ LET r == Clear(ba) IN Call("Clear", NoArgs, ba, r, "void", r.v)

DoSetAll ==
  /\ Idle /\ HasVector
  /\ LET r == SetAll(ba) IN Call("SetAll", NoArgs, ba, r, "void", r.v)

DoSet ==
  /\ Idle /\ HasVector
  /\ \E idx \in IdxArgs(ba) :
       LET r == Set(ba, idx)
       IN Call("Set", [NoArgs EXCEPT !.n = idx], ba, r, "void", r.v)

DoUnset ==
  /\ Idle /\ HasVector
  /\ \E idx \in IdxArgs(ba) :
       LET r == Unset(ba, idx)
       IN Call("Unset", [NoArgs EXCEPT !.n = idx], ba, r, "void", r.v)

DoGet ==
  /\ Idle /\ HasVector
  /\ \E idx \in IdxArgs(ba) :
       LET r == Get(ba, idx)
       IN Call("Get", [NoArgs EXCEPT !.n = idx], ba, r, "bool", r.v)

\* The operand of a binary operator: another vector, or the receiver itself.
BinArgs ==
  {[NoArgs EXCEPT !.other = o] : o \in Others(ba)}
    \cup {[NoArgs EXCEPT !.other = ba, !.alias = TRUE]}

DoAnd ==
  /\ Idle /\ HasVector
  /\ \E a \in BinArgs :
       LET r == And(ba, a.other, a.alias) IN Call("And", a, ba, r, "void", r.v)

DoOr ==
  /\ Idle /\ HasVector
  /\ \E a \in BinArgs :
       LET r == Or(ba, a.other, a.alias) IN Call("Or", a, ba, r, "void", r.v)

DoXor ==
  /\ Idle /\ HasVector
  /\ \E a \in BinArgs :
       LET r == Xor(ba, a.other, a.alias) IN Call("Xor", a, ba, r, "void", r.v)

DoAndNot ==
  /\ Idle /\ HasVector
  /\ \E a \in BinArgs :
       LET r == AndNot(ba, a.other, a.alias) IN Call("AndNot", a, ba, r, "void", r.v)

DoNot ==
  /\ Idle /\ HasVector
  /\ LET r == Not(ba) IN Call("Not", NoArgs, ba, r, "void", r.v)

DoRotate ==
  /\ Idle /\ HasVector
  /\ \E n \in NArgs(ba) :
       LET r == Rotate(ba, n)
       IN Call("Rotate", [NoArgs EXCEPT !.n = n], ba, r, "void", r.v)

DoShift ==
  /\ Idle /\ HasVector
  /\ \E n \in NArgs(ba) :
       LET r == Shift(ba, n)
       IN Call("Shift", [NoArgs EXCEPT !.n = n], ba, r, "void", r.v)

DoSlice ==
  /\ Idle /\ HasVector
  /\ \E start \in SliceArgs(ba), end \in SliceArgs(ba) :
       LET r == Slice(ba, start, end)
       IN Call("Slice", [NoArgs EXCEPT !.n = start, !.m = end], ba, r, "vec", Kept(r))

\* Concat(ba, other), Concat(other, ba) and Concat(ba, ba).
ConcatArgs ==
  {[NoArgs EXCEPT !.ba1 = ba, !.ba2 = o] : o \in ConcatOthers(ba)}
    \cup {[NoArgs EXCEPT !.ba1 = o, !.ba2 = ba] : o \in ConcatOthers(ba)}
    \cup {[NoArgs EXCEPT !.ba1 = ba, !.ba2 = ba, !.alias = TRUE] : o \in ConcatOthers(ba)
            \cap BuiltOf[ba.size]}

DoConcat ==
  /\ Idle /\ HasVector
  /\ \E a \in ConcatArgs :
       LET r == Concat(a.ba1, a.ba2)
       IN Call("Concat", a, ba, [r EXCEPT !.v = ba], "vec", Kept(r))

DoEqual ==
  /\ Idle /\ HasVector
  /\ \E a \in BinArgs :
       LET r == Equal(ba, a.other) IN Call("Equal", a, ba, r, "bool", r.v)

DoCount ==
  /\ Idle /\ HasVector
  /\ LET r == Count(ba) IN Call("Count", NoArgs, ba, r, "num", r.v)

DoLeadingZeros ==
  /\ Idle /\ HasVector
  /\ LET r == LeadingZeros(ba) IN Call("LeadingZeros", NoArgs, ba, r, "num", r.v)

DoTrailingZeros ==
  /\ Idle /\ HasVector
  /\ LET r == TrailingZeros(ba) IN Call("TrailingZeros", NoArgs, ba, r, "num", r.v)

DoSize ==
  /\ Idle /\ HasVector
  /\ LET r == Size(ba) IN Call("Size", NoArgs, ba, r, "num", r.v)

DoString ==
  /\ Idle /\ HasVector
  /\ LET r == String(ba) IN Call("String", NoArgs, ba, r, "str", r.v)

DoMarshalBinary ==
  /\ Idle /\ HasVector
  /\ LET r == MarshalBinary(ba) IN Call("MarshalBinary", NoArgs, ba, r, "payload", r.v)

\* recv.UnmarshalBinary(payload).  The caller's own vector is what the call
\* has made of it; a new(BitArray) replaces the caller's vector once it is
\* filled without error.
Unmarshal(recv, payload) ==
  LET r == UnmarshalBinary(recv, payload)
  IN Call("UnmarshalBinary", [NoArgs EXCEPT !.payload = payload], recv, r, "void",
          IF recv = ba \/ r.err = NoErr THEN r.v ELSE ba)

\* UnmarshalBinary of what MarshalBinary has written for the caller's vector,
\* into new(BitArray) or into the caller's vector.
DoUnmarshalBinary ==
  /\ Idle /\ HasVector
  /\ \E recv \in {Zero, ba} : Unmarshal(recv, MarshalBinary(ba).ret)

\* The call has returned (or the caller has recovered from its panic).
Return == ~Idle /\ last' = NoCall /\ UNCHANGED ba

Next ==
  \/ DoNew \/ DoParse \/ DoClone
  \/ DoClear \/ DoSetAll \/ DoSet \/ DoUnset \/ DoGet
  \/ DoAnd \/ DoOr \/ DoXor \/ DoAndNot \/ DoNot
  \/ DoRotate \/ DoShift \/ DoSlice \/ DoConcat
  \/ DoEqual \/ DoCount \/ DoLeadingZeros \/ DoTrailingZeros \/ DoSize \/ DoString
  \/ DoMarshalBinary \/ DoUnmarshalBinary
  \/ Return

Spec == Init /\ [][Next]_vars

-----------------------------------------------------------------------------
(* The caller that also decodes payloads it has not written itself.         *)

\* The bytes of the payloads' byte slices.
PayloadBytes == {0, 1, MaxUint8}

\* The messages of a payload: an int, or a byte slice of at most two bytes.
Messages ==
  {gobInt(n) : n \in -1..MaxSize} \cup {gobBytes(d) : d \in SeqsUpTo(PayloadBytes, 2)}

\* Payloads of at most two messages: empty, cut short, of the wrong kind, and
\* every pair of a size and a byte slice.
Payloads == SeqsUpTo(Messages, 2)

DoUnmarshalUntrusted ==
  /\ Idle
  /\ \E recv \in {Zero, ba}, payload \in Payloads : Unmarshal(recv, payload)

NextDecode ==
  \/ DoNew \/ DoMarshalBinary \/ DoUnmarshalBinary \/ DoUnmarshalUntrusted
  \/ Return

SpecDecode == Init /\ [][NextDecode]_vars

-----------------------------------------------------------------------------
(* What the claims speak of. *)

\* The indexes of v.
Indexes(v) == 0..(v.size - 1)

\* The set bits of v, as Get reports them.
SetBits(v) == {i \in Indexes(v) : get(v, i)}

\* ceil(size / 8)
CeilBytes(size) == (size + bitsN - 1) \div bitsN

WellFormed(v) == v.size > 0 /\ Len(v.data) = CeilBytes(v.size)

\* The bits of the last byte at positions >= size mod 8 are 0.
PaddingZero(v) ==
  v.size % bitsN # 0 =>
    \A p \in (v.size % bitsN)..(bitsN - 1) : Bit(v.data[Len(v.data)], p) = 0

\* v and w have the same size and the same bits.
SameBits(v, w) == v.size = w.size /\ SetBits(v) = SetBits(w)

Returned == last.panic = NoPanic /\ last.err = NoErr

-----------------------------------------------------------------------------
(* C1 *)

\* C1: padding bits stay zero.  In every state reached by the caller's calls,
\* the caller's vector has every bit of its last byte at a position
\* >= size mod 8 equal to 0, and Count returns the number of indexes whose bit
\* Get reports set.
C1_PaddingZero ==
  HasVector =>
    /\ PaddingZero(ba)
    /\ Count(ba).ret = Cardinality(SetBits(ba))

\* SetAll and Not have run on a two-byte vector with a partial last byte.
C1_Witness ==
  /\ last.op \in {"SetAll", "Not"}
  /\ ba.size = bitsN + 1
  /\ Cardinality(SetBits(ba)) = ba.size

-----------------------------------------------------------------------------
(* C2 *)

\* C2: every vector is well-formed in every reachable state: its size is
\* positive and its storage has ceil(size/8) bytes, also when UnmarshalBinary
\* has filled it from a payload that decoded without error.
C2_WellFormed == HasVector /\ Returned => WellFormed(ba)

\* The same, of the caller that decodes only what MarshalBinary has written.
C2_WellFormedOwnPayloads == HasVector => WellFormed(ba)

-----------------------------------------------------------------------------
(* C3 *)

IsBinary == last.op \in {"And", "Or", "Xor", "AndNot"}

\* The operand of the last binary call, as it was before the call.
OperandBefore == IF last.args.alias THEN last.pre ELSE last.args.other

\* What the operator of the last call makes of the bits x and y.
Combined(x, y) ==
  CASE last.op = "And" -> x /\ y
    [] last.op = "Or" -> x \/ y
    [] last.op = "Xor" -> x # y
    [] last.op = "AndNot" -> x /\ ~y

\* C3: after a.And(b), a.Or(b), a.Xor(b) or a.AndNot(b) with b of a's size (b
\* may be a itself) the call has returned and every bit i of a is the
\* operator's combination of a's and b's bit i before the call; a's size is
\* unchanged.
C3_Bitwise ==
  IsBinary /\ last.pre.size = OperandBefore.size =>
    /\ last.panic = NoPanic
    /\ last.post.size = last.pre.size
    /\ \A i \in Indexes(last.pre) :
         get(last.post, i) = Combined(get(last.pre, i), get(OperandBefore, i))

\* Xor with another vector has changed a two-byte vector in both bytes.
C3_Witness ==
  /\ last.op = "Xor" /\ ~last.args.alias
  /\ last.pre.size = bitsN + 1
  /\ get(last.pre, 0) /\ ~get(last.post, 0)
  /\ ~get(last.pre, bitsN) /\ get(last.post, bitsN)

-----------------------------------------------------------------------------
(* C4 *)

\* (i + n) mod size, the non-negative remainder.
Mod(i, n, size) == ((i % size) + (n % size)) % size

\* C4: Rotate(n) returns for every n and is a cyclic permutation: the bit that
\* was at index i is at index (i + n) mod size afterwards, Count is unchanged,
\* and Rotate(-n) after it restores the vector (for every n that has a
\* negative, which the least int has not).
C4_Rotate ==
  last.op = "Rotate" =>
    /\ last.panic = NoPanic
    /\ last.post.size = last.pre.size
    /\ \A i \in Indexes(last.pre) :
         get(last.post, Mod(i, last.args.n, last.pre.size)) = get(last.pre, i)
    /\ Count(last.post).ret = Count(last.pre).ret
    /\ last.args.n # MinInt =>
         LET back == Rotate(last.post, -last.args.n)
         IN back.panic = NoPanic /\ back.v = last.pre

\* A rotation to the right by more than size has carried a bit across the
\* byte boundary of a two-byte vector.
C4_Witness ==
  /\ last.op = "Rotate"
  /\ last.pre.size = bitsN + 1
  /\ last.args.n = -(last.pre.size + 1)
  /\ get(last.pre, 0) /\ get(last.post, bitsN)
  /\ last.post # last.pre

-----------------------------------------------------------------------------
(* C5 *)

\* Bit i of the vector pre moved by n: the old bit i - n when 0 <= i - n < size,
\* 0 otherwise.
Shifted(pre, n, i) == n <= i /\ n > i - pre.size /\ get(pre, i - n)

\* C5: Shift(n) returns, and afterwards bit i is the old bit i - n when
\* 0 <= i - n < size and 0 otherwise (so Shift(0) changes nothing and
\* |n| >= size leaves no bit set), and Count has not grown.
C5_Shift ==
  last.op = "Shift" =>
    /\ last.panic = NoPanic
    /\ last.post.size = last.pre.size
    /\ \A i \in Indexes(last.pre) :
         get(last.post, i) = Shifted(last.pre, last.args.n, i)
    /\ Count(last.post).ret <= Count(last.pre).ret

\* The same for every distance but the least int.
C5_ShiftButMinInt == last.op = "Shift" /\ last.args.n # MinInt => C5_Shift

-----------------------------------------------------------------------------
(* C6 *)

\* C6: Concat(a, b) returns a new vector of size a.size + b.size whose bits
\* [0, b.size) are b's and whose bit b.size + k is a's bit k; its string is
\* a's string followed by b's; a and b are as they were.
C6_Concat ==
  last.op = "Concat" =>
    LET a == last.args.ba1
        b == last.args.ba2
        c == last.vec
    IN /\ last.panic = NoPanic
       /\ c.size = a.size + b.size
       /\ WellFormed(c)
       /\ \A i \in Indexes(b) : get(c, i) = get(b, i)
       /\ \A k \in Indexes(a) : get(c, b.size + k) = get(a, k)
       /\ String(c).ret = String(a).ret \o String(b).ret
       /\ last.post = last.pre

\* b fills a whole byte and a, with a set bit, starts the next one.
C6_Witness ==
  /\ last.op = "Concat"
  /\ last.args.ba2.size = bitsN
  /\ Cardinality(SetBits(last.args.ba2)) > 1
  /\ SetBits(last.args.ba1) # {}
  /\ get(last.vec, bitsN)

-----------------------------------------------------------------------------
(* C7 *)

\* C7: String returns exactly size characters, each "0" or "1", bit i at
\* position size-1-i; Parse of that string returns, without error, a vector
\* Equal to the one String was called on.
C7_StringRoundTrip ==
  last.op = "String" =>
    LET v == last.pre
        str == last.str
        back == Parse(str)
    IN /\ last.panic = NoPanic
       /\ Len(str) = v.size
       /\ \A i \in Indexes(v) : str[v.size - i] = (IF get(v, i) THEN "1" ELSE "0")
       /\ back.panic = NoPanic /\ back.err = NoErr
       /\ Equal(back.ret, v).ret = TRUE
       /\ Equal(v, back.ret).ret = TRUE

\* The string of a two-byte vector whose last byte prints as the single
\* digit "0" and whose first byte needs its leading zeros.
C7_Witness ==
  /\ last.op = "String"
  /\ last.pre.size = bitsN + 1
  /\ last.str[1] = "0" /\ last.str[2] = "0" /\ last.str[3] = "1"

-----------------------------------------------------------------------------
(* C8 *)

-----------------------------------------------------------------------------
(* C9 *)

\* The highest and the lowest set index of a vector with a set bit.
Highest(v) == CHOOSE h \in SetBits(v) : \A i \in SetBits(v) : i <= h

Lowest(v) == CHOOSE l \in SetBits(v) : \A i \in SetBits(v) : l <= i

\* C9: LeadingZeros returns size-1-h for the highest set index h and
\* TrailingZeros the lowest set index, each size when no bit is set; both lie
\* in [0, size].
C9_Zeros ==
  /\ last.op = "LeadingZeros" =>
       /\ last.panic = NoPanic
       /\ last.num \in 0..last.pre.size
       /\ last.num = IF SetBits(last.pre) = {} THEN last.pre.size
                     ELSE last.pre.size - 1 - Highest(last.pre)
  /\ last.op = "TrailingZeros" =>
       /\ last.panic = NoPanic
       /\ last.num \in 0..last.pre.size
       /\ last.num = IF SetBits(last.pre) = {} THEN last.pre.size
                     ELSE Lowest(last.pre)

\* LeadingZeros has counted through the partial last byte into the first
\* byte of a two-byte vector.
C9_Witness ==
  /\ last.op = "LeadingZeros"
  /\ last.pre.size = bitsN + 1
  /\ last.num = 3

-----------------------------------------------------------------------------
(* C10 *)

\* C10: Get, Set and Unset with idx < 0 or idx >= size panic with "index out
\* of range"; And, Or, Xor and AndNot with an operand of another size panic
\* with the size mismatch; a call that panics so leaves the receiver as it
\* was.  Set and Unset with an index in range return and change the addressed
\* bit alone.
C10_FailFast ==
  /\ last.op \in {"Get", "Set", "Unset"} =>
       IF last.args.n < 0 \/ last.args.n >= last.pre.size
       THEN last.panic = IndexPanic /\ last.post = last.pre
       ELSE /\ last.panic = NoPanic
            /\ last.post.size = last.pre.size
            /\ Len(last.post.data) = Len(last.pre.data)
            /\ PaddingZero(last.post)
            /\ \A i \in Indexes(last.pre) \ {last.args.n} :
                 get(last.post, i) = get(last.pre, i)
            /\ last.op = "Set" => get(last.post, last.args.n)
            /\ last.op = "Unset" => ~get(last.post, last.args.n)
            /\ last.op = "Get" =>
                 last.post = last.pre /\ last.bool = (last.args.n \in SetBits(last.pre))
  /\ IsBinary /\ last.pre.size # OperandBefore.size =>
       last.panic = SizesPanic /\ last.post = last.pre

\* Set(size) on a vector with room in its last byte has panicked.
C10_Witness ==
  /\ last.op = "Set"
  /\ last.pre.size = bitsN + 1
  /\ last.args.n = last.pre.size
  /\ last.panic = IndexPanic

-----------------------------------------------------------------------------
(* C11 *)

\* Slice(v, start, end) with both indexes start and end-1 of v, but start not
\* before end.
SliceOutOfOrder ==
  /\ 0 <= last.args.n /\ last.args.n < last.pre.size
  /\ 0 < last.args.m /\ last.args.m <= last.pre.size
  /\ last.args.n >= last.args.m

\* C11: Slice(v, start, end) returns exactly when 0 <= start < end <= size,
\* and then returns a new vector of size end-start whose bit k is v's bit
\* start+k; every other call panics with "index out of range" and with no
\* other failure; v is as it was either way.
C11_Slice ==
  last.op = "Slice" =>
    LET start == last.args.n
        end == last.args.m
        v == last.pre
    IN /\ last.post = v
       /\ IF 0 <= start /\ start < end /\ end <= v.size
          THEN /\ Returned
               /\ last.vec.size = end - start
               /\ WellFormed(last.vec) /\ PaddingZero(last.vec)
               /\ \A k \in Indexes(last.vec) : get(last.vec, k) = get(v, start + k)
          ELSE last.panic = IndexPanic

\* The same, of every call but those with start and end-1 in range and start
\* not before end.
C11_SliceInOrder == last.op = "Slice" /\ ~SliceOutOfOrder => C11_Slice

\* Slice(v, 1, 1) on a vector of more than one bit: both indexes pass the
\* bounds check, and New(0) panics with the invalid size.
C11_Witness ==
  /\ last.op = "Slice"
  /\ last.args.n = 1 /\ last.args.m = 1
  /\ last.pre.size = bitsN + 1
  /\ last.panic = SizePanic

-----------------------------------------------------------------------------
(* C12 *)

\* The characters of s that are not spaces, in order.
NonSpaces(s) == SelectSeq(s, LAMBDA c : c # " ")

\* C12: Parse never panics, whatever the string (the empty one and those of
\* spaces alone included): it returns an error when a character that is no
\* space is neither "0" nor "1", and otherwise a vector whose size is the
\* number of such characters, the rightmost of them at bit 0.
C12_ParseRecoverable ==
  last.op = "Parse" =>
    LET rs == NonSpaces(last.args.s)
    IN /\ last.panic = NoPanic
       /\ IF \E k \in 1..Len(rs) : rs[k] \notin {"0", "1"}
          THEN last.err = CharErr /\ last.vec = Zero
          ELSE /\ last.err = NoErr
               /\ last.vec.size = Len(rs)
               /\ \A i \in Indexes(last.vec) :
                    get(last.vec, i) = (rs[Len(rs) - i] = "1")

\* The same, of the strings that hold a character that is no space.
C12_ParseOfDigits ==
  last.op = "Parse" /\ NonSpaces(last.args.s) # <<>> => C12_ParseRecoverable

\* Parse of a string of spaces alone has panicked with the invalid size.
C12_Witness ==
  /\ last.op = "Parse"
  /\ last.args.s = <<" ", " ">>
  /\ last.panic = SizePanic

-----------------------------------------------------------------------------
(* C13 *)

\* C13: whenever UnmarshalBinary returns an error, the receiver's size and
\* storage are what they were before the call, also when the size has been
\* decoded and the byte slice has not.
C13_UnmarshalKeeps ==
  last.op = "UnmarshalBinary" /\ last.err # NoErr => last.post = last.pre

\* The same, of the payloads whose first message is no size.
C13_UnmarshalKeepsAtSize ==
  last.op = "UnmarshalBinary" /\ ~decodes(last.args.payload, 1, "int") =>
    last.err # NoErr /\ last.post = last.pre

\* UnmarshalBinary into the caller's vector has decoded a size and then
\* returned the error of a payload cut short.
C13_Witness ==
  /\ last.op = "UnmarshalBinary"
  /\ last.pre # Zero
  /\ Len(last.args.payload) = 1 /\ last.args.payload[1].kind = "int"
  /\ last.err = GobErr
  /\ last.post.size # last.pre.size

====
